---- MODULE Spec2Model ----
(***************************************************************************)
(* Model of the OpenISave personal finance tracker.                        *)
(*                                                                         *)
(* Two applications live in the repository and both serve port 8000, so    *)
(* one of them is deployed at a time:                                      *)
(*   finance_app.py  Flask app over finance_web.db                         *)
(*                   (accounts, transactions, exchange_rates)              *)
(*   server.py       http.server app over finance.db                       *)
(*                   (transactions, exchange_rates)                        *)
(*                                                                         *)
(* Numbers.  Python floats are modelled as exact rationals [n, d] in       *)
(* lowest terms with d > 0; rounding error of binary floating point is     *)
(* not modelled.  Dates of rate rows are date.today().isoformat(); ISO     *)
(* strings order like the days they denote, so a day is a number.          *)
(***************************************************************************)
EXTENDS Integers, Sequences, FiniteSets, TLC

VARIABLES
    program,            \* which application is deployed
    accounts,           \* finance_web.db: accounts table, in rowid order
    transactions,       \* finance_web.db: transactions table, in rowid order
    exchange_rates,     \* finance_web.db: committed exchange_rates rows
    today,              \* date.today()
    scan,               \* order in which the engine returns rows the query leaves unordered
    upd_pc,             \* position of the update_rates thread
    upd_rates,          \* update_rates: the 'rates' object of the fetched response
    upd_i,              \* update_rates: index of the loop over CURRENCIES
    upd_today,          \* update_rates: its local today
    upd_pending,        \* update_rates: rows inserted in the open, uncommitted transaction
    log,                \* last line update_rates wrote to the log of the running process
    response,           \* last HTTP response sent
    srv_transactions,   \* finance.db: transactions table
    srv_exchange_rates, \* finance.db: exchange_rates table
    srv_rate_seq,       \* finance.db: AUTOINCREMENT counter of exchange_rates
    dash_pc,            \* position of the api_dashboard handler
    dash_accounts,      \* api_dashboard: the accounts it fetched
    dash_a,             \* api_dashboard: index of the loop over the accounts
    dash_rows,          \* api_dashboard: the rows it fetched for the account
    dash_r,             \* api_dashboard: index of the loop over the rows
    dash_balance,       \* api_dashboard: balance of the account so far
    dash_out,           \* api_dashboard: account_balances, the balances it answers with
    dash_store,         \* history: the store as api_dashboard found it at its first query
    dash_last           \* history: store and answer of the last api_dashboard run that
                        \* no write overlapped

vars == <<program, accounts, transactions, exchange_rates, today, scan,
          upd_pc, upd_rates, upd_i, upd_today, upd_pending, log, response,
          srv_transactions, srv_exchange_rates, srv_rate_seq,
          dash_pc, dash_accounts, dash_a, dash_rows, dash_r, dash_balance, dash_out,
          dash_store, dash_last>>

appVars == <<accounts, transactions, exchange_rates>>
updVars == <<upd_pc, upd_rates, upd_i, upd_today, upd_pending, log>>
srvVars == <<srv_transactions, srv_exchange_rates, srv_rate_seq>>
dashVars == <<dash_pc, dash_accounts, dash_a, dash_rows, dash_r, dash_balance, dash_out,
              dash_store, dash_last>>

----------------------------------------------------------------------------
(* Bounds *)

MaxDay == 2
MaxAccounts == 2
MaxTx == 2
MaxRates == 8
MaxSrvTx == 2
MaxSrvRefresh == 2
MaxDashWrites == 3

----------------------------------------------------------------------------
(* Configuration *)

CURRENCIES == <<"CNY", "USD", "EUR", "GBP", "JPY", "CAD", "AUD">>
ALLOWED_TYPES == {"income", "expense", "transfer"}

CurrencySet == {CURRENCIES[i] : i \in DOMAIN CURRENCIES}

----------------------------------------------------------------------------
(* Numbers *)

Abs(x) == IF x < 0 THEN -x ELSE x

RECURSIVE GCD(_, _)
GCD(a, b) == IF b = 0 THEN a ELSE GCD(b, a % b)

Rat(n, d) ==
    LET g == GCD(Abs(n), Abs(d))
        s == IF d < 0 THEN -1 ELSE 1
    IN  [n |-> (s * n) \div g, d |-> (s * d) \div g]

Zero == Rat(0, 1)
One == Rat(1, 1)

RMul(a, b) == Rat(a.n * b.n, a.d * b.d)
RInv(a) == Rat(a.d, a.n)
RAdd(a, b) == Rat(a.n * b.d + b.n * a.d, a.d * b.d)
RSub(a, b) == Rat(a.n * b.d - b.n * a.d, a.d * b.d)
RLeq(a, b) == a.n * b.d <= b.n * a.d

(* round(x, 2): nearest multiple of 1/100, halves to the even neighbour *)
Round2(a) ==
    LET num == a.n * 100
        q == num \div a.d
        r2 == 2 * (num % a.d)
        up == r2 > a.d \/ (r2 = a.d /\ q % 2 = 1)
    IN  Rat(IF up THEN q + 1 ELSE q, 100)

(* A JSON value where a number is expected: a number, or a string that is  *)
(* not a number.  float() raises on the latter.                            *)
JNum(n, d) == [t |-> "num", v |-> Rat(n, d)]
JStr == [t |-> "str", v |-> Zero]
FloatRaises(j) == j.t # "num"
Float(j) == j.v


----------------------------------------------------------------------------
(* Strings: the conversions the handlers apply to their inputs *)

(* str.upper() on the currency codes the requests carry *)
Upper(s) ==
    CASE s = "usd" -> "USD"
      [] s = "cny" -> "CNY"
      [] s = "xxx" -> "XXX"
      [] OTHER -> s

(* str.lower().strip() on the type strings the requests carry *)
LowerStrip(s) ==
    CASE s = "Income " -> "income"
      [] s = "EXPENSE" -> "expense"
      [] OTHER -> s

(* str.strip() on the account names the requests carry *)
Strip(s) ==
    CASE s = "  " -> ""
      [] s = " Cash " -> "Cash"
      [] OTHER -> s

(* datetime.strptime(datestr, "%Y-%m-%d").date(): <<y, m, d>>, or <<>> when *)
(* strptime raises.  %m and %d accept one digit.                            *)
Strptime(s) ==
    CASE s = "2024-03-01" -> <<2024, 3, 1>>
      [] s = "2024-3-1" -> <<2024, 3, 1>>
      [] s = "2024-04-15" -> <<2024, 4, 15>>
      [] OTHER -> <<>>

Digits2(k) == <<"00", "01", "02", "03", "04", "05", "06", "07", "08", "09", "10",
                "11", "12", "13", "14", "15", "16", "17", "18", "19", "20",
                "21", "22", "23", "24", "25", "26", "27", "28", "29", "30", "31">>[k + 1]

YearStr(y) == CASE y = 2024 -> "2024" [] y = 2023 -> "2023" [] OTHER -> "0000"

(* date.isoformat() *)
IsoFormat(d) == YearStr(d[1]) \o "-" \o Digits2(d[2]) \o "-" \o Digits2(d[3])

(* parse_iso_date: the date, or <<>> for the ValueError it raises *)
parse_iso_date(datestr) == Strptime(datestr)

----------------------------------------------------------------------------
(* finance_web.db *)

(* rowid of the next INSERT into an INTEGER PRIMARY KEY table: max + 1 *)
NextId(table) ==
    IF table = <<>> THEN 1
    ELSE 1 + (CHOOSE m \in {table[i].id : i \in DOMAIN table} :
                 \A i \in DOMAIN table : table[i].id <= m)

AccountRow(name, currency) == [name |-> name, currency |-> currency]

RateRow(from, to, rate, day, source) ==
    [from_currency |-> from, to_currency |-> to, rate |-> rate,
     date |-> day, source |-> source]

(* INSERT of one row: the table with the row appended under the next rowid *)
Insert(table, row) == Append(table, [id |-> NextId(table)] @@ row)

RECURSIVE InsertAll(_, _)
InsertAll(table, rows) ==
    IF rows = <<>> THEN table
    ELSE InsertAll(Insert(table, Head(rows)), Tail(rows))

default_rates ==
    << <<"USD", "CNY", Rat(72, 10)>>, <<"EUR", "CNY", Rat(78, 10)>>,
       <<"GBP", "CNY", Rat(9, 1)>>, <<"CNY", "USD", RInv(Rat(72, 10))>>,
       <<"USD", "EUR", Rat(92, 100)>>, <<"EUR", "USD", RInv(Rat(92, 100))>> >>

(* init_db with the two tests for an empty table left out *)
init_db_Always(accs, rates, day) ==
    [accounts |-> Insert(accs, AccountRow("Main Account", "CNY")),
     exchange_rates |->
        InsertAll(rates,
            [i \in DOMAIN default_rates |->
                RateRow(default_rates[i][1], default_rates[i][2],
                        default_rates[i][3], day, "default")])]

(* init_db on a store [accounts, exchange_rates] on the given day *)
init_db(accs, rates, day) ==
    [accounts |->
        IF Len(accs) = 0 THEN Insert(accs, AccountRow("Main Account", "CNY"))
        ELSE accs,
     exchange_rates |->
        IF Len(rates) = 0
        THEN InsertAll(rates,
                 [i \in DOMAIN default_rates |->
                     RateRow(default_rates[i][1], default_rates[i][2],
                             default_rates[i][3], day, "default")])
        ELSE rates]

----------------------------------------------------------------------------
(* Rate lookup *)

ScanOrders == {"rowid_asc", "rowid_desc"}

NoRow == [id |-> 0]

SetMin(S) == CHOOSE m \in S : \A k \in S : m <= k
SetMax(S) == CHOOSE m \in S : \A k \in S : k <= m

(* SelectLatest with the row among those of the newest date chosen by the   *)
(* clock instead of the scan                                                *)
SelectLatest_TieByClock(rates, from, to, order) ==
    LET match == {i \in DOMAIN rates :
                    rates[i].from_currency = from /\ rates[i].to_currency = to}
        newest == {i \in match : \A j \in match : rates[j].date <= rates[i].date}
    IN  IF match = {} THEN NoRow
        ELSE rates[IF today % 2 = 1 THEN SetMin(newest) ELSE SetMax(newest)]

(* SELECT rate FROM exchange_rates WHERE from_currency = ? AND to_currency = ? *)
(* ORDER BY date DESC LIMIT 1.  The query orders by date alone: among rows of  *)
(* the newest date the engine returns the first one of its scan.               *)
SelectLatest(rates, from, to, order) ==
    LET match == {i \in DOMAIN rates :
                    rates[i].from_currency = from /\ rates[i].to_currency = to}
        newest == {i \in match : \A j \in match : rates[j].date <= rates[i].date}
    IN  IF match = {} THEN NoRow
        ELSE rates[IF order = "rowid_asc" THEN SetMin(newest) ELSE SetMax(newest)]

Found(r) == r.id # 0

(* get_latest_rate with the reverse lookup tried before the direct one *)
LatestRate_ReverseFirst(rates, from_currency, to_currency, order) ==
    LET r == SelectLatest(rates, from_currency, to_currency, order)
        r2 == SelectLatest(rates, to_currency, from_currency, order)
        r_from_usd == SelectLatest(rates, from_currency, "USD", order)
        r_usd_to == SelectLatest(rates, "USD", to_currency, order)
    IN  IF from_currency = to_currency THEN One
        ELSE IF Found(r2) /\ r2.rate # Zero THEN RInv(r2.rate)
        ELSE IF Found(r) THEN r.rate
        ELSE IF /\ from_currency # "USD" /\ to_currency # "USD"
                /\ Found(r_from_usd) /\ Found(r_usd_to)
                /\ r_from_usd.rate # Zero /\ r_usd_to.rate # Zero
             THEN RMul(r_from_usd.rate, r_usd_to.rate)
        ELSE One

(* get_latest_rate over a given table: lines 110-130 *)
LatestRate(rates, from_currency, to_currency, order) ==
    LET r == SelectLatest(rates, from_currency, to_currency, order)
        r2 == SelectLatest(rates, to_currency, from_currency, order)
        r_from_usd == SelectLatest(rates, from_currency, "USD", order)
        r_usd_to == SelectLatest(rates, "USD", to_currency, order)
    IN  IF from_currency = to_currency THEN One
        ELSE IF Found(r) THEN r.rate
        ELSE IF Found(r2) /\ r2.rate # Zero THEN RInv(r2.rate)
        ELSE IF /\ from_currency # "USD" /\ to_currency # "USD"
                /\ Found(r_from_usd) /\ Found(r_usd_to)
                /\ r_from_usd.rate # Zero /\ r_usd_to.rate # Zero
             THEN RMul(r_from_usd.rate, r_usd_to.rate)
        ELSE One

get_latest_rate(from_currency, to_currency) ==
    LatestRate(exchange_rates, from_currency, to_currency, scan)


----------------------------------------------------------------------------
(* HTTP responses *)

Ok(status) == [status |-> status, error |-> ""]
Err(status, msg) == [status |-> status, error |-> msg]

(* The connection's write lock: update_rates holds it from its first INSERT  *)
(* until commit or rollback, and a writer of another connection waits for it *)
WriteLocked == upd_pc = "insert" /\ upd_pending # <<>>

----------------------------------------------------------------------------
(* POST /api/accounts *)

AccountRequests ==
    { [name |-> " Cash ", currency |-> "usd"],
      [name |-> "  ", currency |-> "USD"],
      [name |-> "Cash", currency |-> "xxx"] }

api_add_account(data) ==
    LET name == Strip(data.name)
        currency == Upper(IF data.currency = "" THEN "CNY" ELSE data.currency)
    IN  /\ program = "finance_app"
        /\ (name # "" /\ currency \in CurrencySet) => ~WriteLocked
        /\ Len(accounts) < MaxAccounts
        /\ IF name = ""
           THEN /\ response' = Err(400, "Account name is required")
                /\ UNCHANGED accounts
           ELSE IF currency \notin CurrencySet
           THEN /\ response' = Err(400, "Unsupported currency")
                /\ UNCHANGED accounts
           ELSE /\ accounts' = Insert(accounts, AccountRow(name, currency))
                /\ response' = Ok(200)
        /\ UNCHANGED <<program, transactions, exchange_rates, today, scan>>
        /\ UNCHANGED updVars
        /\ UNCHANGED srvVars
        /\ UNCHANGED dashVars

----------------------------------------------------------------------------
(* POST /api/transactions *)

required_fields == <<"date", "type", "category", "amount", "currency">>

AllFields == {required_fields[i] : i \in DOMAIN required_fields}

TxReq(has, date, type, category, amount, currency, account_id) ==
    [has |-> has, date |-> date, type |-> type, category |-> category,
     amount |-> amount, currency |-> currency, account_id |-> account_id]

(* account_id 0 stands for an absent or null account_id *)
TxRequests ==
    { TxReq(AllFields, "2024-03-01", "Income ", "Salary", JNum(10, 1), "usd", 0),
      TxReq(AllFields, "2024-3-1", "EXPENSE", "Food", JNum(50, 1), "cny", 2),
      TxReq(AllFields, "2024-03-01", "transfer", "Salary", JNum(5, 1), "CNY", 1),
      TxReq(AllFields, "2024-04-15", "expense", "Food", JNum(10, 1), "", 99),
      TxReq(AllFields, "2024-03-01", "income", "Salary", JNum(0, 1), "USD", 1),
      TxReq(AllFields, "2024-03-01", "income", "Salary", JNum(-5, 1), "USD", 1),
      TxReq(AllFields, "2024-03-01", "income", "Salary", JStr, "USD", 1),
      TxReq(AllFields, "2024-03-01", "income", "Salary", JNum(10, 1), "xxx", 1),
      TxReq(AllFields, "2024-03-01", "bogus", "Salary", JNum(10, 1), "USD", 1),
      TxReq(AllFields, "01/03/2024", "income", "Salary", JNum(10, 1), "USD", 1),
      TxReq(AllFields, "01/03/2024", "bogus", "Salary", JNum(0, 1), "xxx", 99),
      TxReq(AllFields, "2024-03-01", "bogus", "Salary", JNum(0, 1), "USD", 1),
      TxReq(AllFields, "2024-03-01", "income", "Salary", JNum(-5, 1), "xxx", 1),
      TxReq(AllFields, "01/03/2024", "income", "Salary", JStr, "USD", 1),
      TxReq(AllFields \ {"currency"}, "01/03/2024", "bogus", "Salary", JNum(10, 1), "", 1),
      TxReq(AllFields \ {"category", "amount"}, "2024-03-01", "bogus", "", JStr, "xxx", 0),
      TxReq(AllFields \ {"amount"}, "2024-03-01", "income", "Salary", JStr, "USD", 1),
      TxReq(AllFields \ {"date", "type"}, "", "", "Salary", JNum(0, 1), "USD", 1) }

RECURSIVE FirstMissing(_, _)
FirstMissing(data, i) ==
    IF i > Len(required_fields) THEN ""
    ELSE IF required_fields[i] \notin data.has THEN required_fields[i]
    ELSE FirstMissing(data, i + 1)

(* SELECT id FROM accounts LIMIT 1 with the newest account as the first row *)
FirstAccount_Newest(accs, order) ==
    IF accs = <<>> THEN NoRow ELSE accs[Len(accs)]

(* SELECT id FROM accounts LIMIT 1.  accounts has no index and the query no *)
(* sort, so SQLite walks the table's b-tree, which is keyed by rowid: the   *)
(* first row is the one of the lowest id, whatever order the engine gives   *)
(* to the ties of a sort.                                                   *)
FirstAccount(accs, order) ==
    IF accs = <<>> THEN NoRow ELSE accs[1]

(* api_add_transaction's validation with the amount checked before the type *)
TxError_AmountBeforeType(data, accs, order) ==
    LET tx_type == LowerStrip(data.type)
        currency == Upper(IF data.currency = "" THEN "CNY" ELSE data.currency)
    IN  IF FirstMissing(data, 1) # "" THEN FirstMissing(data, 1) \o " is required"
        ELSE IF parse_iso_date(data.date) = <<>> THEN "Date must be in YYYY-MM-DD format"
        ELSE IF FloatRaises(data.amount) \/ RLeq(Float(data.amount), Zero)
             THEN "Invalid amount; must be positive number"
        ELSE IF tx_type \notin ALLOWED_TYPES THEN "invalid type"
        ELSE IF currency \notin CurrencySet THEN "Unsupported currency"
        ELSE IF data.account_id = 0 /\ ~Found(FirstAccount(accs, order))
             THEN "No accounts found"
        ELSE ""

(* The error api_add_transaction answers with, "" when it accepts *)
TxError(data, accs, order) ==
    LET tx_type == LowerStrip(data.type)
        currency == Upper(IF data.currency = "" THEN "CNY" ELSE data.currency)
    IN  IF FirstMissing(data, 1) # "" THEN FirstMissing(data, 1) \o " is required"
        ELSE IF parse_iso_date(data.date) = <<>> THEN "Date must be in YYYY-MM-DD format"
        ELSE IF tx_type \notin ALLOWED_TYPES THEN "invalid type"
        ELSE IF FloatRaises(data.amount) \/ RLeq(Float(data.amount), Zero)
             THEN "Invalid amount; must be positive number"
        ELSE IF currency \notin CurrencySet THEN "Unsupported currency"
        ELSE IF data.account_id = 0 /\ ~Found(FirstAccount(accs, order))
             THEN "No accounts found"
        ELSE ""

(* The row api_add_transaction inserts for a request it accepts *)
TxRow(data, accs, order) ==
    [date |-> IsoFormat(parse_iso_date(data.date)),
     type |-> LowerStrip(data.type),
     category |-> data.category,
     amount |-> Float(data.amount),
     currency |-> Upper(IF data.currency = "" THEN "CNY" ELSE data.currency),
     account_id |-> IF data.account_id = 0 THEN FirstAccount(accs, order).id
                    ELSE data.account_id]

(* api_add_transaction with the INSERT placed before the currency check *)
api_add_transaction_InsertFirst(data) ==
    LET err == TxError(data, accounts, scan)
    IN  /\ program = "finance_app"
        /\ Len(transactions) < MaxTx
        /\ IF err = "Unsupported currency"
           THEN /\ transactions' = Insert(transactions, TxRow(data, accounts, scan))
                /\ response' = Err(400, err)
           ELSE IF err # ""
           THEN /\ response' = Err(400, err)
                /\ UNCHANGED transactions
           ELSE /\ transactions' = Insert(transactions, TxRow(data, accounts, scan))
                /\ response' = Ok(200)
        /\ UNCHANGED <<program, accounts, exchange_rates, today, scan>>
        /\ UNCHANGED updVars
        /\ UNCHANGED srvVars
        /\ UNCHANGED dashVars

api_add_transaction(data) ==
    LET err == TxError(data, accounts, scan)
    IN  /\ program = "finance_app"
        /\ err = "" => ~WriteLocked
        /\ Len(transactions) < MaxTx
        /\ IF err # ""
           THEN /\ response' = Err(400, err)
                /\ UNCHANGED transactions
           ELSE /\ transactions' = Insert(transactions, TxRow(data, accounts, scan))
                /\ response' = Ok(200)
        /\ UNCHANGED <<program, accounts, exchange_rates, today, scan>>
        /\ UNCHANGED updVars
        /\ UNCHANGED srvVars
        /\ UNCHANGED dashVars

----------------------------------------------------------------------------
(* POST /api/exchange-rates *)

JNull == [t |-> "null", v |-> Zero]

RateReq(from, to, rate) == [from_currency |-> from, to_currency |-> to, rate |-> rate]

RateRequests ==
    { RateReq("usd", "CNY", JNum(73, 10)),
      RateReq("GBP", "USD", JNum(5, 4)),
      RateReq("USD", "CNY", JNum(0, 1)),
      RateReq("USD", "CNY", JNum(-1, 1)),
      RateReq("USD", "CNY", JStr),
      RateReq("USD", "CNY", JNull),
      RateReq("", "CNY", JNum(73, 10)),
      RateReq("USD", "xxx", JNum(73, 10)),
      RateReq("xxx", "xxx", JNum(0, 1)) }

(* The error api_add_rate answers with, "" when it accepts *)
RateError(data) ==
    LET from_currency == Upper(data.from_currency)
        to_currency == Upper(data.to_currency)
    IN  IF from_currency = "" \/ to_currency = "" \/ data.rate = JNull
        THEN "All fields are required (from_currency, to_currency, rate)"
        ELSE IF FloatRaises(data.rate) \/ RLeq(Float(data.rate), Zero)
             THEN "Invalid rate; must be positive number"
        ELSE IF from_currency \notin CurrencySet \/ to_currency \notin CurrencySet
             THEN "Unsupported currency in from/to"
        ELSE ""

api_add_rate(data) ==
    LET err == RateError(data)
    IN  /\ program = "finance_app"
        /\ err = "" => ~WriteLocked
        /\ Len(exchange_rates) < MaxRates
        /\ IF err # ""
           THEN /\ response' = Err(400, err)
                /\ UNCHANGED exchange_rates
           ELSE /\ exchange_rates' =
                      Insert(exchange_rates,
                             RateRow(Upper(data.from_currency), Upper(data.to_currency),
                                     Float(data.rate), today, "manual"))
                /\ response' = Ok(200)
        /\ UNCHANGED <<program, accounts, transactions, today, scan>>
        /\ UNCHANGED updVars
        /\ UNCHANGED srvVars
        /\ UNCHANGED dashVars


----------------------------------------------------------------------------
(* POST /api/exchange-rates/update and its background thread *)

NoRates == [c \in {} |-> JNull]

(* What requests.get(...).json() gives update_rates: ok = FALSE stands for   *)
(* a network error, an HTTP error status or a body that is not JSON; rates   *)
(* is data.get('rates', {}).                                                 *)
FetchResponses ==
    { [ok |-> FALSE, rates |-> NoRates],
      [ok |-> TRUE, rates |-> NoRates],
      [ok |-> TRUE, rates |-> ("CNY" :> JNum(725, 100) @@ "USD" :> JNum(1, 1)
                               @@ "JPY" :> JNum(150, 1))],
      [ok |-> TRUE, rates |-> ("CNY" :> JNum(-7, 1) @@ "JPY" :> JNum(0, 1))],
      [ok |-> TRUE, rates |-> ("CNY" :> JNum(725, 100) @@ "EUR" :> JStr)] }

NoLog == [line |-> "", inserted |-> 0]

(* api_update_rates: start the thread and answer 202 *)
api_update_rates ==
    /\ program = "finance_app"
    /\ upd_pc = "idle"
    /\ Len(exchange_rates) < MaxRates
    /\ upd_pc' = "fetch"
    /\ response' = Ok(202)
    /\ UNCHANGED <<program, accounts, transactions, exchange_rates, today, scan,
                   upd_rates, upd_i, upd_today, upd_pending, log>>
    /\ UNCHANGED srvVars
    /\ UNCHANGED dashVars

(* update_rates, lines 246-251: the fetch *)
update_rates_fetch(resp) ==
    /\ upd_pc = "fetch"
    /\ IF resp.ok
       THEN /\ upd_pc' = "insert"
            /\ upd_rates' = resp.rates
            /\ upd_i' = 1
            /\ upd_today' = today
            /\ UNCHANGED log
       ELSE /\ upd_pc' = "idle"
            /\ log' = [line |-> "update_rates failed", inserted |-> 0]
            /\ UNCHANGED <<upd_rates, upd_i, upd_today>>
    /\ UNCHANGED <<program, accounts, transactions, exchange_rates, today, scan,
                   upd_pending, response>>
    /\ UNCHANGED srvVars
    /\ UNCHANGED dashVars

(* The next index of the loop at or after i whose currency is inserted, or *)
(* Len(CURRENCIES) + 1                                                      *)
RECURSIVE NextFetched(_, _)
NextFetched(rates, i) ==
    IF i > Len(CURRENCIES) THEN i
    ELSE IF CURRENCIES[i] \in DOMAIN rates /\ CURRENCIES[i] # "USD" THEN i
    ELSE NextFetched(rates, i + 1)

(* update_rates on a connection in autocommit mode: every INSERT is final *)
update_rates_step_Autocommit ==
    LET i == NextFetched(upd_rates, upd_i)
    IN  /\ upd_pc = "insert"
        /\ IF i > Len(CURRENCIES)
           THEN /\ log' = [line |-> "update_rates: inserted",
                           inserted |-> Len(upd_pending)]
                /\ upd_pc' = "idle"
                /\ upd_pending' = <<>>
                /\ upd_rates' = NoRates
                /\ upd_today' = 0
                /\ UNCHANGED <<exchange_rates, upd_i>>
           ELSE IF FloatRaises(upd_rates[CURRENCIES[i]])
           THEN /\ log' = [line |-> "update_rates failed", inserted |-> 0]
                /\ upd_pc' = "idle"
                /\ upd_pending' = <<>>
                /\ upd_rates' = NoRates
                /\ upd_today' = 0
                /\ UNCHANGED <<exchange_rates, upd_i>>
           ELSE /\ exchange_rates' =
                      Insert(exchange_rates,
                             RateRow("USD", CURRENCIES[i],
                                     Float(upd_rates[CURRENCIES[i]]), upd_today, "api"))
                /\ upd_pending' =
                      Append(upd_pending,
                             RateRow("USD", CURRENCIES[i],
                                     Float(upd_rates[CURRENCIES[i]]), upd_today, "api"))
                /\ upd_i' = i + 1
                /\ UNCHANGED <<log, upd_pc, upd_rates, upd_today>>
        /\ UNCHANGED <<program, accounts, transactions, today, scan, response>>
        /\ UNCHANGED srvVars
        /\ UNCHANGED dashVars

(* update_rates, lines 252-265: one iteration that inserts, or the commit   *)
(* after the loop; an exception leaves the with block, which rolls back     *)
update_rates_step ==
    LET i == NextFetched(upd_rates, upd_i)
    IN  /\ upd_pc = "insert"
        /\ IF i > Len(CURRENCIES)
           THEN /\ exchange_rates' = InsertAll(exchange_rates, upd_pending)
                /\ log' = [line |-> "update_rates: inserted",
                           inserted |-> Len(upd_pending)]
                /\ upd_pc' = "idle"
                /\ upd_pending' = <<>>
                /\ upd_rates' = NoRates
                /\ upd_today' = 0
                /\ UNCHANGED upd_i
           ELSE IF FloatRaises(upd_rates[CURRENCIES[i]])
           THEN /\ log' = [line |-> "update_rates failed", inserted |-> 0]
                /\ upd_pc' = "idle"
                /\ upd_pending' = <<>>
                /\ upd_rates' = NoRates
                /\ upd_today' = 0
                /\ UNCHANGED <<exchange_rates, upd_i>>
           ELSE /\ upd_pending' =
                      Append(upd_pending,
                             RateRow("USD", CURRENCIES[i],
                                     Float(upd_rates[CURRENCIES[i]]), upd_today, "api"))
                /\ upd_i' = i + 1
                /\ UNCHANGED <<exchange_rates, log, upd_pc, upd_rates, upd_today>>
        /\ UNCHANGED <<program, accounts, transactions, today, scan, response>>
        /\ UNCHANGED srvVars
        /\ UNCHANGED dashVars

(* The process is restarted: the daemon thread and a running request die   *)
(* with it, the open transaction is rolled back, and init_db runs again    *)
(* (line 405)                                                              *)
restart ==
    LET db == init_db(accounts, exchange_rates, today)
    IN  /\ program = "finance_app"
        /\ accounts' = db.accounts
        /\ exchange_rates' = db.exchange_rates
        /\ upd_pc' = "idle"
        /\ upd_pending' = <<>>
        /\ upd_rates' = NoRates
        /\ upd_i' = 0
        /\ upd_today' = 0
        /\ log' = NoLog
        /\ dash_pc' = "idle"
        /\ dash_accounts' = <<>>
        /\ dash_a' = 0
        /\ dash_rows' = <<>>
        /\ dash_r' = 0
        /\ dash_balance' = Zero
        /\ dash_out' = <<>>
        /\ UNCHANGED <<program, transactions, today, scan, response>>
        /\ UNCHANGED <<dash_store, dash_last>>
        /\ UNCHANGED srvVars

(* Midnight passes *)
next_day ==
    /\ today < MaxDay
    /\ today' = today + 1
    /\ UNCHANGED <<program, accounts, transactions, exchange_rates, scan, response>>
    /\ UNCHANGED updVars
    /\ UNCHANGED srvVars
    /\ UNCHANGED dashVars


----------------------------------------------------------------------------
(* GET /api/dashboard: per-account balances *)

(* The rows of the account, with the WHERE account_id = ? clause left out *)
OfAccount_NoFilter(txs, acc_id) == txs

(* SELECT type, amount, currency FROM transactions WHERE account_id = ? *)
OfAccount(txs, acc_id) == SelectSeq(txs, LAMBDA r : r.account_id = acc_id)

(* The loop of lines 299-309 over the rows of one account *)
RECURSIVE SumRows(_, _, _, _, _)
SumRows(rows, acc_currency, rates, order, balance) ==
    IF rows = <<>> THEN balance
    ELSE LET r == Head(rows)
             rate == LatestRate(rates, r.currency, acc_currency, order)
             converted == RMul(r.amount, rate)
         IN  SumRows(Tail(rows), acc_currency, rates, order,
                     IF r.type = "expense" THEN RSub(balance, converted)
                     ELSE RAdd(balance, converted))

(* balance of lines 298-309, before rounding *)
Balance(txs, acc, rates, order) ==
    SumRows(OfAccount(txs, acc.id), acc.currency, rates, order, Zero)

(* acc['balance'] of the dashboard's answer *)
computeBalance(acc) == Round2(Balance(transactions, acc, exchange_rates, scan))

(* The handler step by step.  Every query of api_dashboard and every call  *)
(* of get_latest_rate is a SELECT in autocommit mode (get_latest_rate on a *)
(* connection of its own), so each reads the store as committed at that    *)
(* moment and other requests and the update_rates thread run in between.   *)

NoEval == [store |-> <<>>, out |-> <<>>]

TheStore == <<accounts, transactions, exchange_rates>>

(* lines 272-297: the queries up to the rows of the first account *)
api_dashboard ==
    /\ program = "finance_app"
    /\ dash_pc = "idle"
    /\ dash_pc' = "rows"
    /\ dash_accounts' = accounts
    /\ dash_a' = 1
    /\ dash_rows' = IF accounts = <<>> THEN <<>>
                    ELSE OfAccount(transactions, accounts[1].id)
    /\ dash_r' = 1
    /\ dash_balance' = Zero
    /\ dash_out' = <<>>
    /\ dash_store' = TheStore
    /\ dash_last' = IF dash_last.store = TheStore THEN dash_last ELSE NoEval
    /\ UNCHANGED <<program, accounts, transactions, exchange_rates, today, scan,
                   response>>
    /\ UNCHANGED updVars
    /\ UNCHANGED srvVars

(* lines 299-309: one iteration of the loop over the rows *)
api_dashboard_row ==
    /\ dash_pc = "rows"
    /\ dash_a <= Len(dash_accounts)
    /\ dash_r <= Len(dash_rows)
    /\ dash_balance' = SumRows(<<dash_rows[dash_r]>>, dash_accounts[dash_a].currency,
                               exchange_rates, scan, dash_balance)
    /\ dash_r' = dash_r + 1
    /\ UNCHANGED <<program, accounts, transactions, exchange_rates, today, scan,
                   response, dash_pc, dash_accounts, dash_a, dash_rows, dash_out,
                   dash_store, dash_last>>
    /\ UNCHANGED updVars
    /\ UNCHANGED srvVars

(* lines 310-311 and 297: the balance of the account is rounded and kept,  *)
(* and the rows of the next account are fetched                            *)
api_dashboard_account ==
    /\ dash_pc = "rows"
    /\ dash_a < Len(dash_accounts)
    /\ dash_r > Len(dash_rows)
    /\ dash_out' = Append(dash_out, Round2(dash_balance))
    /\ dash_a' = dash_a + 1
    /\ dash_rows' = OfAccount(transactions, dash_accounts[dash_a + 1].id)
    /\ dash_r' = 1
    /\ dash_balance' = Zero
    /\ UNCHANGED <<program, accounts, transactions, exchange_rates, today, scan,
                   response, dash_pc, dash_accounts, dash_store, dash_last>>
    /\ UNCHANGED updVars
    /\ UNCHANGED srvVars

(* lines 310-316: the balance of the last account, and the answer *)
api_dashboard_return ==
    /\ dash_pc = "rows"
    /\ dash_a >= Len(dash_accounts)
    /\ dash_r > Len(dash_rows)
    /\ dash_out' = IF dash_accounts = <<>> THEN <<>>
                   ELSE Append(dash_out, Round2(dash_balance))
    /\ response' = Ok(200)
    /\ dash_pc' = "idle"
    /\ dash_accounts' = <<>>
    /\ dash_a' = 0
    /\ dash_rows' = <<>>
    /\ dash_r' = 0
    /\ dash_balance' = Zero
    /\ dash_last' = IF dash_store = TheStore
                    THEN [store |-> dash_store, out |-> dash_out']
                    ELSE NoEval
    /\ dash_store' = <<>>
    /\ UNCHANGED <<program, accounts, transactions, exchange_rates, today, scan>>
    /\ UNCHANGED updVars
    /\ UNCHANGED srvVars

----------------------------------------------------------------------------
(* GET /api/reports/monthly/<year>/<month> *)

ReportMonths == {<<2024, 3>>, <<2024, 4>>, <<2024, 5>>, <<2024, 0>>}

(* get_transactions(limit=10000, account_id=None, year, month): the rows of *)
(* the month; year or month 0 is falsy and drops the filter                 *)
get_transactions(txs, year, month) ==
    IF year # 0 /\ month # 0
    THEN SelectSeq(txs, LAMBDA r : /\ SubSeq(r.date, 1, 4) = YearStr(year)
                                   /\ SubSeq(r.date, 6, 7) = Digits2(month))
    ELSE txs

RECURSIVE SumAmounts(_)
SumAmounts(rows) ==
    IF rows = <<>> THEN Zero ELSE RAdd(Head(rows).amount, SumAmounts(Tail(rows)))

Categories(rows) == {rows[i].category : i \in DOMAIN rows}

(* A dict built by d[k] = d.get(k, 0) + amount over the rows *)
SumByCategory(rows) ==
    [c \in Categories(rows) |-> SumAmounts(SelectSeq(rows, LAMBDA r : r.category = c))]

api_monthly_report(txs, year, month) ==
    LET rows == get_transactions(txs, year, month)
        income_total == SumAmounts(SelectSeq(rows, LAMBDA r : r.type = "income"))
        expense_total == SumAmounts(SelectSeq(rows, LAMBDA r : r.type = "expense"))
    IN  [income_total |-> income_total,
         expense_total |-> expense_total,
         net |-> RSub(income_total, expense_total),
         transaction_count |-> Len(rows),
         expense_by_category |->
             SumByCategory(SelectSeq(rows, LAMBDA r : r.type = "expense")),
         income_by_category |->
             SumByCategory(SelectSeq(rows, LAMBDA r : r.type # "expense"))]


----------------------------------------------------------------------------
(* server.py *)

(* FinanceHandler.handle_add_transaction: the values are stored as sent; a *)
(* missing key raises KeyError, answered with 500                          *)
handle_add_transaction(data) ==
    /\ program = "server"
    /\ Len(srv_transactions) < MaxSrvTx
    /\ IF AllFields \subseteq data.has
       THEN /\ srv_transactions' =
                  Insert(srv_transactions,
                         [date |-> data.date, type |-> data.type,
                          category |-> data.category, amount |-> data.amount,
                          currency |-> data.currency])
            /\ response' = Ok(200)
       ELSE /\ response' = Err(500, "KeyError")
            /\ UNCHANGED srv_transactions
    /\ UNCHANGED <<program, accounts, transactions, exchange_rates, today, scan,
                   srv_exchange_rates, srv_rate_seq>>
    /\ UNCHANGED updVars
    /\ UNCHANGED dashVars

rates_data ==
    << <<"USD", "CNY", Rat(72345, 10000)>>, <<"EUR", "CNY", Rat(78901, 10000)>>,
       <<"GBP", "CNY", Rat(91234, 10000)>>, <<"CNY", "USD", Rat(1383, 10000)>>,
       <<"CNY", "EUR", Rat(1267, 10000)>>, <<"CNY", "GBP", Rat(1096, 10000)>> >>

(* FinanceHandler.handle_update_rates: DELETE FROM exchange_rates, then the *)
(* mock rates under the next AUTOINCREMENT ids                              *)
handle_update_rates ==
    /\ program = "server"
    /\ srv_rate_seq < MaxSrvRefresh * Len(rates_data)
    /\ srv_exchange_rates' =
          [i \in DOMAIN rates_data |->
              [id |-> srv_rate_seq + i] @@
              RateRow(rates_data[i][1], rates_data[i][2], rates_data[i][3],
                      today, "api")]
    /\ srv_rate_seq' = srv_rate_seq + Len(rates_data)
    /\ response' = Ok(200)
    /\ UNCHANGED <<program, accounts, transactions, exchange_rates, today, scan,
                   srv_transactions>>
    /\ UNCHANGED updVars
    /\ UNCHANGED dashVars

(* SQLite's value of a stored amount inside SUM(): text that is no number is 0 *)
SqlNum(j) == IF j.t = "num" THEN j.v ELSE Zero

RECURSIVE SqlSum(_)
SqlSum(rows) ==
    IF rows = <<>> THEN Zero ELSE RAdd(SqlNum(Head(rows).amount), SqlSum(Tail(rows)))

(* Rank of the type strings in the BINARY collation GROUP BY sorts by *)
TypeRank(t) ==
    CASE t = "" -> 0
      [] t = "EXPENSE" -> 1
      [] t = "Income " -> 2
      [] t = "bogus" -> 3
      [] t = "expense" -> 4
      [] t = "income" -> 5
      [] t = "transfer" -> 6
      [] OTHER -> 7

(* date LIKE 'YYYY-MM%' *)
LikeMonth(datestr, year, month) ==
    /\ Len(datestr) >= 7
    /\ SubSeq(datestr, 1, 7) = YearStr(year) \o "-" \o Digits2(month)

(* FinanceHandler.handle_get_monthly_report *)
handle_get_monthly_report(txs, year, month, order) ==
    LET rows == SelectSeq(txs, LAMBDA r : LikeMonth(r.date, year, month))
        OfType(t) == SelectSeq(rows, LAMBDA r : r.type = t)
        Types == {rows[i].type : i \in DOMAIN rows}
        (* totals = dict(cursor.fetchall()): one SUM per type present *)
        Total(t) == IF t \in Types THEN SqlSum(OfType(t)) ELSE Zero
        Group(t, c) == SelectSeq(rows, LAMBDA r : r.type = t /\ r.category = c)
        (* d[category] = total, row after row: the last group of a category wins *)
        Last(c, ts) ==
            LET ranks == {TypeRank(t) : t \in {u \in ts : Group(u, c) # <<>>}}
                w == IF order = "rowid_asc" THEN SetMax(ranks) ELSE SetMin(ranks)
            IN  CHOOSE t \in ts : Group(t, c) # <<>> /\ TypeRank(t) = w
        ByCategory(ts) ==
            [c \in {rows[i].category : i \in {j \in DOMAIN rows : rows[j].type \in ts}} |->
                SqlSum(Group(Last(c, ts), c))]
    IN  [income_total |-> Total("income"),
         expense_total |-> Total("expense"),
         net |-> RSub(Total("income"), Total("expense")),
         expense_by_category |-> ByCategory({"expense"}),
         income_by_category |-> ByCategory(Types \ {"expense"})]

----------------------------------------------------------------------------
(* Specification *)

Programs == {"finance_app", "server"}

Init ==
    /\ program \in Programs
    /\ scan \in ScanOrders
    /\ today = 1
    /\ accounts = IF program = "finance_app"
                  THEN init_db(<<>>, <<>>, 1).accounts ELSE <<>>
    /\ exchange_rates = IF program = "finance_app"
                        THEN init_db(<<>>, <<>>, 1).exchange_rates ELSE <<>>
    /\ transactions = <<>>
    /\ upd_pc = "idle"
    /\ upd_rates = NoRates
    /\ upd_i = 0
    /\ upd_today = 0
    /\ upd_pending = <<>>
    /\ log = NoLog
    /\ response = Ok(0)
    /\ srv_transactions = <<>>
    /\ srv_exchange_rates = <<>>
    /\ srv_rate_seq = 0
    /\ dash_pc = "idle"
    /\ dash_accounts = <<>>
    /\ dash_a = 0
    /\ dash_rows = <<>>
    /\ dash_r = 0
    /\ dash_balance = Zero
    /\ dash_out = <<>>
    /\ dash_store = <<>>
    /\ dash_last = NoEval

Next ==
    \/ \E data \in AccountRequests : api_add_account(data)
    \/ \E data \in TxRequests : api_add_transaction(data)
    \/ \E data \in RateRequests : api_add_rate(data)
    \/ api_update_rates
    \/ \E resp \in FetchResponses : update_rates_fetch(resp)
    \/ update_rates_step
    \/ restart
    \/ next_day
    \/ api_dashboard
    \/ api_dashboard_row
    \/ api_dashboard_account
    \/ api_dashboard_return
    \/ \E data \in TxRequests : handle_add_transaction(data)
    \/ handle_update_rates

Spec == Init /\ [][Next]_vars


(* The three parts of the system share no state: the rate actions read and  *)
(* write exchange_rates and the thread's variables only, the ledger actions *)
(* never write a rate the refresh reads, and server.py has its own database. *)
(* Each part is also checked on its own, with every other variable at rest   *)
(* (the ledger part with the clock at rest as well: only rate rows carry the *)
(* day).                                                                     *)
(* The submissions are checked once more without the rates, and the         *)
(* dashboard, which only reads, beside the requests that write.              *)

InitApp == Init /\ program = "finance_app"
InitServer == Init /\ program = "server"

NextRates ==
    \/ \E data \in RateRequests : api_add_rate(data)
    \/ api_update_rates
    \/ \E resp \in FetchResponses : update_rates_fetch(resp)
    \/ update_rates_step
    \/ restart
    \/ next_day

SpecRates == InitApp /\ [][NextRates]_vars

NextLedger ==
    \/ \E data \in AccountRequests : api_add_account(data)
    \/ \E data \in TxRequests : api_add_transaction(data)
    \/ \E data \in RateRequests : api_add_rate(data)

SpecLedger == InitApp /\ [][NextLedger]_vars

(* The submissions of transactions beside the creation of accounts *)
NextSubmit ==
    \/ \E data \in AccountRequests : api_add_account(data)
    \/ \E data \in TxRequests : api_add_transaction(data)

SpecSubmit == InitApp /\ [][NextSubmit]_vars

NextServer ==
    \/ \E data \in TxRequests : handle_add_transaction(data)
    \/ handle_update_rates
    \/ next_day

SpecServer == InitServer /\ [][NextServer]_vars

(* The dashboard with the writers it runs beside.  A rejected request      *)
(* writes nothing, so the writers are given the requests they accept.      *)
AcceptedAccounts ==
    {data \in AccountRequests :
        /\ Strip(data.name) # ""
        /\ Upper(IF data.currency = "" THEN "CNY" ELSE data.currency) \in CurrencySet}
AcceptedTx == {data \in TxRequests : TxError(data, accounts, scan) = ""}
AcceptedRates == {data \in RateRequests : RateError(data) = ""}

(* The rows written since init_db *)
StoreWrites ==
    (Len(accounts) + Len(transactions) + Len(exchange_rates)) - (1 + Len(default_rates))

NextDash ==
    \/ StoreWrites < MaxDashWrites /\ \E data \in AcceptedAccounts : api_add_account(data)
    \/ StoreWrites < MaxDashWrites /\ \E data \in AcceptedTx : api_add_transaction(data)
    \/ StoreWrites < MaxDashWrites /\ \E data \in AcceptedRates : api_add_rate(data)
    \/ next_day
    \/ api_dashboard
    \/ api_dashboard_row
    \/ api_dashboard_account
    \/ api_dashboard_return

SpecDash == InitApp /\ [][NextDash]_vars


----------------------------------------------------------------------------
(* Claims *)

Rows(table) == {table[i] : i \in DOMAIN table}

(* The rows of a pair that carry the pair's most recent date *)
Newest(from, to) ==
    LET pair == {r \in Rows(exchange_rates) :
                    r.from_currency = from /\ r.to_currency = to}
    IN  {r \in pair : \A q \in pair : q.date <= r.date}

Lat(from, to) == {r.rate : r \in Newest(from, to)}

(* The latest rates of every pair *)
LatestRates == [p \in CurrencySet \X CurrencySet |-> Lat(p[1], p[2])]

ViaUSD(L, from, to) ==
    IF from # "USD" /\ to # "USD" /\ L[from, "USD"] # {} /\ L["USD", to] # {}
    THEN {RMul(x, y) : x \in L[from, "USD"] \ {Zero}, y \in L["USD", to] \ {Zero}}
         \cup (IF Zero \in L[from, "USD"] \cup L["USD", to] THEN {One} ELSE {})
    ELSE {One}

ViaReverse(L, from, to) ==
    {RInv(x) : x \in L[to, from] \ {Zero}}
    \cup (IF L[to, from] = {} \/ Zero \in L[to, from] THEN ViaUSD(L, from, to) ELSE {})

(* The values the resolution order allows for a pair, given the latest rates *)
Resolved(L, from, to) ==
    IF from = to THEN {One}
    ELSE IF L[from, to] # {} THEN L[from, to]
    ELSE ViaReverse(L, from, to)

(* api_dashboard answers: the step is api_dashboard_return *)
DashReturns == dash_pc = "rows" /\ dash_pc' = "idle" /\ dash_store' = <<>>

C12_InitIdempotent ==
    LET fresh == init_db(<<>>, <<>>, today)
        again == init_db(accounts, exchange_rates, today)
    IN  /\ fresh.accounts = <<[id |-> 1, name |-> "Main Account", currency |-> "CNY"]>>
        /\ [i \in DOMAIN fresh.exchange_rates |->
              <<fresh.exchange_rates[i].id, fresh.exchange_rates[i].from_currency,
                fresh.exchange_rates[i].to_currency, fresh.exchange_rates[i].rate>>]
             = << <<1, "USD", "CNY", Rat(72, 10)>>, <<2, "EUR", "CNY", Rat(78, 10)>>,
                  <<3, "GBP", "CNY", Rat(9, 1)>>, <<4, "CNY", "USD", Rat(10, 72)>>,
                  <<5, "USD", "EUR", Rat(92, 100)>>, <<6, "EUR", "USD", Rat(100, 92)>> >>
        /\ \A r \in Rows(fresh.exchange_rates) : r.source = "default" /\ r.date = today
        /\ init_db(fresh.accounts, fresh.exchange_rates, today) = fresh
        /\ again.accounts = accounts
        /\ again.exchange_rates = exchange_rates

(* C12 witness: init_db runs again on a store that holds a second account, *)
(* two transactions and two rates recorded after the defaults.             *)
C12_Witness ==
    /\ Len(accounts) = 2
    /\ Len(transactions) = 2
    /\ Len(exchange_rates) = Len(default_rates) + 2
    /\ init_db(accounts, exchange_rates, today).accounts = accounts
    /\ init_db(accounts, exchange_rates, today).exchange_rates = exchange_rates

(* C13: the rate-refresh trigger of either application answers 202 and   *)
(* answers before the refresh has run: the step that answers changes no    *)
(* rate table, the refresh completes or fails in later steps.              *)
C13_TriggerAnswers202 ==
    [][/\ (upd_pc = "idle" /\ upd_pc' = "fetch") =>
             (response' = Ok(202) /\ exchange_rates' = exchange_rates)
       /\ srv_rate_seq' # srv_rate_seq =>
             (response' = Ok(202) /\ srv_exchange_rates' = srv_exchange_rates)]_vars

(* The checks of a transaction submission in their fixed order, each with  *)
(* whether the submission violates it and the error that reports it        *)
TxChecks(data) ==
    LET missing == {i \in DOMAIN required_fields : required_fields[i] \notin data.has}
    IN  << <<missing # {},
             IF missing = {} THEN "" ELSE required_fields[SetMin(missing)] \o " is required">>,
           <<Strptime(data.date) = <<>>, "Date must be in YYYY-MM-DD format">>,
           <<LowerStrip(data.type) \notin ALLOWED_TYPES, "invalid type">>,
           <<data.amount.t # "num" \/ data.amount.v.n <= 0,
             "Invalid amount; must be positive number">>,
           <<Upper(data.currency) \notin CurrencySet \cup {""}, "Unsupported currency">>,
           <<data.account_id = 0 /\ accounts = <<>>, "No accounts found">> >>

FirstViolated(data) ==
    LET c == TxChecks(data)
        bad == {i \in DOMAIN c : c[i][1]}
    IN  IF bad = {} THEN "" ELSE c[SetMin(bad)][2]

(* C14: a transaction submission is answered with one error, that of the   *)
(* first check it violates in the order required fields (date, type,       *)
(* category, amount, currency), date format, type, amount, currency,       *)
(* account; it is accepted only when it violates none.                     *)
C14_FirstViolationReported ==
    [][\A data \in TxRequests :
          api_add_transaction(data) =>
              /\ response'.error = FirstViolated(data)
              /\ (response'.status = 400) = (FirstViolated(data) # "")
              /\ (response'.status = 200) = (FirstViolated(data) = "")]_vars

(* C14 witness: a submission without category and amount, with an unknown  *)
(* type and an unsupported currency, was answered with the missing         *)
(* category alone, while transactions are stored.                          *)
C14_Witness ==
    /\ response = Err(400, "category is required")
    /\ Len(transactions) >= 1

DashKeepsBalance ==
    /\ dash_pc = "rows" /\ dash_a <= Len(dash_accounts) /\ dash_r > Len(dash_rows)
    /\ Len(dash_out') = Len(dash_out) + 1

(* C16: the balance api_dashboard computes for an account is the balance   *)
(* of the rows it fetched against one state of the rate table, one of the  *)
(* states the table went through since the request began (the table only   *)
(* grows, so these are its prefixes): rows of one currency are all         *)
(* converted with one multiplier.                                          *)
C16_BalanceOfOneRateState ==
    [][DashKeepsBalance =>
          \E k \in Len(dash_store[3])..Len(exchange_rates) :
              dash_balance = SumRows(dash_rows, dash_accounts[dash_a].currency,
                                     SubSeq(exchange_rates, 1, k), scan, Zero)]_vars

(* C1: for every pair of supported currencies and every rate table,        *)
(* resolve(from, to) is 1 when from = to; else a latest direct rate if one *)
(* exists; else the reciprocal of a latest nonzero reverse rate; else,     *)
(* only when neither currency is USD and latest from->USD and USD->to      *)
(* rates exist and are nonzero, their product; else 1.  A direct rate wins *)
(* over a reverse rate, a reverse rate over the USD bridge.  Where every   *)
(* pair has one latest rate the value is determined.                       *)
C1_ResolveOrder ==
    LET L == LatestRates
        unique == \A p \in DOMAIN L : Cardinality(L[p]) <= 1
    IN  \A from \in CurrencySet, to \in CurrencySet :
            LET v == get_latest_rate(from, to)
                allowed == Resolved(L, from, to)
            IN  v \in allowed /\ (unique => allowed = {v})

(* C1 witness: GBP->EUR is bridged over USD while no GBP/EUR rate exists,   *)
(* CNY->EUR is the reciprocal of EUR->CNY, a direct USD->CNY rate newer     *)
(* than the defaults is returned, and JPY->USD falls back to 1 over a zero  *)
(* USD->JPY rate.                                                           *)
C1_Witness ==
    /\ Lat("GBP", "EUR") = {} /\ Lat("EUR", "GBP") = {}
    /\ get_latest_rate("GBP", "EUR") = RMul(Rat(5, 4), Rat(92, 100))
    /\ Lat("CNY", "EUR") = {}
    /\ get_latest_rate("CNY", "EUR") = RInv(Rat(78, 10))
    /\ Lat("USD", "JPY") = {Zero}
    /\ get_latest_rate("JPY", "USD") = One
    /\ get_latest_rate("CNY", "JPY") = One

(* C2: the rate resolve uses for a pair is the one of the pair's row with   *)
(* the most recent date and, among rows of that date, the highest id.       *)
C2_LatestByDateThenId ==
    \A from \in CurrencySet, to \in CurrencySet :
        (from # to /\ Newest(from, to) # {}) =>
            \E r \in Newest(from, to) :
                /\ \A q \in Newest(from, to) : q.id <= r.id
                /\ get_latest_rate(from, to) = r.rate

(* C3: every rate row of a state is still a row of the next state, with the *)
(* same id, currencies, rate, date and source.                              *)
C3_RatesAppendOnly ==
    [][/\ Rows(exchange_rates) \subseteq Rows(exchange_rates')
       /\ Rows(srv_exchange_rates) \subseteq Rows(srv_exchange_rates')]_vars


(* C4: a transaction, account or rate submission answered with a           *)
(* validation error leaves accounts, transactions and exchange_rates as    *)
(* they were before the request.                                           *)
C4_RejectionWritesNothing ==
    [][response'.status = 400 =>
          /\ accounts' = accounts
          /\ transactions' = transactions
          /\ exchange_rates' = exchange_rates]_vars

(* C4 witness: a transaction was rejected for its currency, the last of the *)
(* field checks, while rows are stored in all three tables.                 *)
C4_Witness ==
    /\ response = Err(400, "Unsupported currency")
    /\ Len(transactions) >= 1
    /\ Len(accounts) >= 2
    /\ Len(exchange_rates) > Len(default_rates)

(* C5: the account_id of every stored transaction is the id of an account. *)
C5_AccountExists ==
    \A t \in Rows(transactions) : \E a \in Rows(accounts) : a.id = t.account_id

(* C6: every stored exchange-rate row has rate > 0, whatever its source.   *)
C6_RatesPositive ==
    \A r \in Rows(exchange_rates) : ~RLeq(r.rate, Zero)

(* C7: every stored transaction, of either application, has amount > 0, a  *)
(* type in {income, expense, transfer} and a supported currency.           *)
C7_StoredTransactionsValid ==
    /\ \A t \in Rows(transactions) :
          /\ ~RLeq(t.amount, Zero)
          /\ t.type \in ALLOWED_TYPES
          /\ t.currency \in CurrencySet
    /\ \A t \in Rows(srv_transactions) :
          /\ t.amount.t = "num" /\ ~RLeq(t.amount.v, Zero)
          /\ t.type \in ALLOWED_TYPES
          /\ t.currency \in CurrencySet


(* The rows update_rates inserts for the response it holds: one per        *)
(* supported currency other than USD that the response quotes              *)
Fetched ==
    LET cs == SelectSeq(CURRENCIES, LAMBDA c : c \in DOMAIN upd_rates /\ c # "USD")
    IN  [i \in DOMAIN cs |->
            [id |-> Len(exchange_rates) + i, from_currency |-> "USD",
             to_currency |-> cs[i], rate |-> upd_rates[cs[i]].v,
             date |-> upd_today, source |-> "api"]]

ThreadEnds == upd_pc # "idle" /\ upd_pc' = "idle"

(* C8: a refresh that fails, at the fetch or at any insert, leaves the      *)
(* committed rate table as it was and changes no response; a refresh that   *)
(* succeeds appends all the fetched rows in its last step; no other step of *)
(* the refresh changes the table.                                           *)
C8_RefreshAllOrNothing ==
    [][/\ (ThreadEnds /\ log'.line # "update_rates: inserted") =>
             (exchange_rates' = exchange_rates /\ response' = response)
       /\ (ThreadEnds /\ log'.line = "update_rates: inserted") =>
             (exchange_rates' = exchange_rates \o Fetched /\ response' = response)
       /\ (upd_pc' # "idle" /\ <<upd_pc, upd_i, upd_pending>>' # <<upd_pc, upd_i, upd_pending>>) =>
             exchange_rates' = exchange_rates]_vars

(* C8 witness: a refresh failed after it had inserted a row, and the table  *)
(* holds no row from the external source.                                   *)
C8_Witness ==
    /\ upd_pc = "idle"
    /\ log.line = "update_rates failed"
    /\ upd_i > 1
    /\ \A r \in Rows(exchange_rates) : r.source # "api"

RECURSIVE SignedSum(_, _)
SignedSum(S, acc_currency) ==
    IF S = {} THEN Zero
    ELSE LET t == CHOOSE x \in S : TRUE
             v == RMul(t.amount, get_latest_rate(t.currency, acc_currency))
             rest == SignedSum(S \ {t}, acc_currency)
         IN  IF t.type \in {"income", "transfer"} THEN RAdd(rest, v) ELSE RSub(rest, v)

(* C9: the balance of every account is the sum, over exactly the            *)
(* transactions of that account, of amount * resolve(transaction currency,  *)
(* account currency), negative for an expense and positive for an income or *)
(* a transfer; with the rate USD->CNY = 7.2 and a CNY account holding one   *)
(* income of 10 USD the balance is 72.00.                                   *)
C9_BalanceIsSignedSum ==
    \A acc \in Rows(accounts) :
        LET own == {t \in Rows(transactions) : t.account_id = acc.id}
        IN  /\ Balance(transactions, acc, exchange_rates, scan)
                  = SignedSum(own, acc.currency)
            /\ computeBalance(acc) = Round2(SignedSum(own, acc.currency))
            /\ (/\ acc.currency = "CNY"
                /\ Lat("USD", "CNY") = {Rat(72, 10)}
                /\ Cardinality(own) = 1
                /\ \A t \in own : /\ t.type = "income" /\ t.currency = "USD"
                                  /\ t.amount = Rat(10, 1))
               => computeBalance(acc) = Rat(7200, 100)

(* C9 witness: the CNY account holds one income of 10 USD and shows 72.00   *)
(* while a USD account holds an expense of 50 CNY and shows -6.94.          *)
C9_Witness ==
    /\ Len(accounts) = 2 /\ Len(transactions) = 2
    /\ accounts[1].currency = "CNY" /\ accounts[2].currency = "USD"
    /\ Lat("USD", "CNY") = {Rat(72, 10)}
    /\ \E t \in Rows(transactions) :
          t.account_id = 1 /\ t.type = "income" /\ t.currency = "USD"
    /\ \E t \in Rows(transactions) :
          t.account_id = 2 /\ t.type = "expense" /\ t.currency = "CNY"
    /\ computeBalance(accounts[1]) = Rat(7200, 100)
    /\ computeBalance(accounts[2]) = Rat(-694, 100)

RECURSIVE SumValues(_, _)
SumValues(f, S) ==
    IF S = {} THEN Zero
    ELSE LET c == CHOOSE x \in S : TRUE IN RAdd(f[c], SumValues(f, S \ {c}))

ReportConsistent(r) ==
    /\ r.net = RSub(r.income_total, r.expense_total)
    /\ SumValues(r.expense_by_category, DOMAIN r.expense_by_category) = r.expense_total
    /\ SumValues(r.income_by_category, DOMAIN r.income_by_category) = r.income_total

(* C10: for every (year, month) and every set of stored transactions, the   *)
(* monthly report of either application has net = income_total -            *)
(* expense_total, expense_by_category summing to expense_total and          *)
(* income_by_category summing to income_total.                              *)
C10_ReportTotals ==
    \A ym \in ReportMonths :
        /\ ReportConsistent(api_monthly_report(transactions, ym[1], ym[2]))
        /\ ReportConsistent(
               handle_get_monthly_report(srv_transactions, ym[1], ym[2], scan))

====
